---- MODULE Spec2Model ----
(***************************************************************************)
(* binserde: src/src/lib.rs.                                               *)
(*                                                                         *)
(* The crate is one blanket implementation of the trait BinSerDe           *)
(* (bser_into, bser, bdes) on top of the bincode coder that coder()        *)
(* configures: big-endian, fixed-width integers, trailing bytes allowed.   *)
(* The model is the three trait methods as atomic operations of            *)
(* independent call sites, and the wire format the configured coder        *)
(* produces for the record types of the crate (ShortStruct,                *)
(* PgReplicationMsg) and for one record type with constrained fields       *)
(* (a bool and a three-variant enum), which the blanket implementation     *)
(* covers as well.                                                         *)
(*                                                                         *)
(* Integers of the model are TLC's, so field values are drawn below 2^31;  *)
(* bytes are 0..255 and every conversion is computed byte by byte.         *)
(***************************************************************************)
EXTENDS Integers, Sequences, FiniteSets, TLC

VARIABLES
    call,   \* call[s]: the last call of call site s: its method and inputs
    res,    \* res[s]:  what that call returned
    buffer  \* buffer[s]: the buffer of site s as the call left it: the Vec bser
            \*          returned, bser_into's region, bdes's source buffer

vars == <<call, res, buffer>>

\* Independent call sites (threads, or places of one program).
Sites == {"a", "b"}

\* ------------------------------------------------------------------ bounds

\* Bytes appended after a record's fields in a source buffer, and capacity a
\* destination region may have beyond the record's encoded length.
MaxTrail == 3

\* The byte the tests put after the record (0xFF); also what a destination
\* region holds before bser_into writes to it.
TrailByte == 255

\* --------------------------------------------------------------- sequences

Take(s, n) == SubSeq(s, 1, IF n < Len(s) THEN n ELSE Len(s))

Fill(n, b) == [i \in 1..n |-> b]

Reverse(s) == [i \in 1..Len(s) |-> s[Len(s) + 1 - i]]

\* ------------------------------------------------------------ record types

\* The record types: their fields' types in declared order.
Layout(ty) ==
    CASE ty = "ShortStruct"      -> <<"u8", "u32">>
      [] ty = "PgReplicationMsg" -> <<"u8", "u64", "u64", "u64", "u64", "u8">>
      [] ty = "Constrained"      -> <<"bool", "enum">>

Types == {"ShortStruct", "PgReplicationMsg", "Constrained"}

\* Variants of the enum field of Constrained; bincode encodes a variant as
\* its index, a u32.
NumVariants == 3

\* The width in bytes of a field on the wire under fixed-width encoding.
Width(k) ==
    CASE k = "u8"   -> 1
      [] k = "u32"  -> 4
      [] k = "u64"  -> 8
      [] k = "bool" -> 1
      [] k = "enum" -> 4

RECURSIVE SumWidths(_)
SumWidths(layout) ==
    IF layout = <<>> THEN 0 ELSE Width(Head(layout)) + SumWidths(Tail(layout))

\* The number of bytes the layout of ty takes.
EncodedLen(ty) == SumWidths(Layout(ty))

\* impl From<KeepAliveReply> for PgReplicationMsg
FromKeepAliveReply(blockpos, timestamp) ==
    <<114, blockpos, 0, 0, timestamp, 0>>

\* ------------------------------------------------------------------- coder

\* Mutant of coder: allow_trailing_bytes() left out (bincode's DefaultOptions
\* reject trailing bytes).
coderRejectTrailing ==
    [endian |-> "big", int_encoding |-> "fixint", trailing |-> "reject"]

\* coder(): DefaultOptions with_big_endian, with_fixint_encoding,
\* allow_trailing_bytes.
coder == [endian |-> "big", int_encoding |-> "fixint", trailing |-> "allow"]

\* The w bytes of v, most significant first.
RECURSIVE BigEndian(_, _)
BigEndian(v, w) ==
    IF w = 0 THEN <<>> ELSE BigEndian(v \div 256, w - 1) \o <<v % 256>>

\* The value of bytes read most significant first.
RECURSIVE FromBigEndian(_)
FromBigEndian(bytes) ==
    IF bytes = <<>> THEN 0
    ELSE FromBigEndian(SubSeq(bytes, 1, Len(bytes) - 1)) * 256 + bytes[Len(bytes)]

\* Mutant of EncodeInt: with_big_endian() left out (least significant byte
\* first).
EncodeIntLittle(v, w) == Reverse(BigEndian(v, w))

\* Mutant of EncodeInt: with_fixint_encoding() left out (bincode's varint:
\* a u8 is its byte, a wider integer below 251 is one byte, below 2^16 the
\* byte 251 and two bytes, below 2^32 the byte 252 and four bytes).
EncodeIntVarint(v, w) ==
    IF w = 1 \/ v < 251 THEN <<v>>
    ELSE IF v < 65536 THEN <<251>> \o BigEndian(v, 2)
    ELSE <<252>> \o BigEndian(v, 4)

\* Mutant of DecodeInt: the bytes read least significant first (the three
\* lowest places, which keeps the value in TLC's integers).
DecodeIntLittle(bytes) ==
    FromBigEndian(Reverse(SubSeq(bytes, 1, IF Len(bytes) < 3 THEN Len(bytes) ELSE 3)))

\* An integer of w bytes on the wire: all w bytes whatever the value (fixint),
\* in the coder's byte order.
EncodeInt(v, w) ==
    IF coder.endian = "big" THEN BigEndian(v, w) ELSE Reverse(BigEndian(v, w))

DecodeInt(bytes) ==
    IF coder.endian = "big" THEN FromBigEndian(bytes)
    ELSE FromBigEndian(Reverse(bytes))

\* A field's bytes. A bool is one byte, 0 or 1; an enum is its variant's
\* index as a u32.
EncodeField(k, v) == EncodeInt(v, Width(k))

\* Mutant of DecodeField: lenient decoding, any nonzero byte is true and a
\* variant index past the last is the last variant.
DecodeFieldLenient(k, bytes) ==
    LET v == DecodeInt(bytes) IN
    CASE k = "bool" -> [ok |-> TRUE, val |-> IF v = 0 THEN 0 ELSE 1]
      [] k = "enum" ->
            [ok |-> TRUE, val |-> IF v < NumVariants THEN v ELSE NumVariants - 1]
      [] OTHER -> [ok |-> TRUE, val |-> v]

\* A field's value from its bytes, or an error when they are no value of
\* the field's type: a bool byte other than 0 and 1, a variant index no
\* variant has.
DecodeField(k, bytes) ==
    LET v == DecodeInt(bytes) IN
    CASE k = "bool" ->
            IF v \in {0, 1} THEN [ok |-> TRUE, val |-> v]
            ELSE [ok |-> FALSE, val |-> 0]
      [] k = "enum" ->
            IF v < NumVariants THEN [ok |-> TRUE, val |-> v]
            ELSE [ok |-> FALSE, val |-> 0]
      [] OTHER -> [ok |-> TRUE, val |-> v]

\* ------------------------------------------------------------------ writers

\* `&mut [u8]` as a Write: a region of fixed capacity and the place of the
\* next write.
SliceWriter(region) == [growable |-> FALSE, buf |-> region, pos |-> 0]

\* `Vec<u8>` as a Write: bser's new buffer, which grows as it is written.
VecWriter == [growable |-> TRUE, buf |-> <<>>, pos |-> 0]

\* Mutant of WriteAll: Write::write in place of write_all, which reports
\* success when the slice took only a part of data.
WriteAllShort(w, data) ==
    IF w.growable
    THEN [ok |-> TRUE,
          w  |-> [w EXCEPT !.buf = w.buf \o data, !.pos = w.pos + Len(data)]]
    ELSE LET room == Len(w.buf) - w.pos
             n    == IF Len(data) < room THEN Len(data) ELSE room
         IN [ok |-> TRUE,
             w  |-> [w EXCEPT
                        !.buf = [i \in 1..Len(w.buf) |->
                                    IF i > w.pos /\ i <= w.pos + n
                                    THEN data[i - w.pos] ELSE w.buf[i]],
                        !.pos = w.pos + n]]

\* Write::write_all. A Vec takes all of data. A slice takes as many bytes as
\* it has room for and fails when that is not all of data; the bytes it took
\* stay written.
WriteAll(w, data) ==
    IF w.growable
    THEN [ok |-> TRUE,
          w  |-> [w EXCEPT !.buf = w.buf \o data, !.pos = w.pos + Len(data)]]
    ELSE LET room == Len(w.buf) - w.pos
             n    == IF Len(data) < room THEN Len(data) ELSE room
         IN [ok |-> n = Len(data),
             w  |-> [w EXCEPT
                        !.buf = [i \in 1..Len(w.buf) |->
                                    IF i > w.pos /\ i <= w.pos + n
                                    THEN data[i - w.pos] ELSE w.buf[i]],
                        !.pos = w.pos + n]]

\* Serialize for a struct: its fields in declared order, each one write_all;
\* the first write that fails ends the call.
RECURSIVE SerializeFields(_, _, _, _)
SerializeFields(layout, rec, i, w) ==
    IF i > Len(layout) THEN [ok |-> TRUE, w |-> w]
    ELSE LET r == WriteAll(w, EncodeField(layout[i], rec[i])) IN
         IF r.ok THEN SerializeFields(layout, rec, i + 1, r.w)
         ELSE [ok |-> FALSE, w |-> r.w]

\* ------------------------------------------------------------------ readers

\* Mutant of ReadBytes: no check of what is left; bytes past the end of buf
\* are read (as 0).
ReadBytesUnchecked(buf, pos, w) ==
    [ok    |-> TRUE,
     bytes |-> [j \in 1..w |-> IF pos + j <= Len(buf) THEN buf[pos + j] ELSE 0],
     pos   |-> pos + w]

\* The slice reader: w bytes from position pos of buf, or an error (end of
\* input) when fewer are left. It never looks past the end of buf.
ReadBytes(buf, pos, w) ==
    IF w > Len(buf) - pos
    THEN [ok |-> FALSE, bytes |-> <<>>, pos |-> pos]
    ELSE [ok |-> TRUE, bytes |-> SubSeq(buf, pos + 1, pos + w), pos |-> pos + w]

\* Deserialize for a struct: its fields in declared order from the front of
\* buf; the first field that cannot be read or is no valid value ends the
\* call. pos is the number of bytes read from buf.
RECURSIVE DeserializeFields(_, _, _, _, _)
DeserializeFields(layout, buf, i, pos, acc) ==
    IF i > Len(layout) THEN [ok |-> TRUE, rec |-> acc, pos |-> pos]
    ELSE LET r == ReadBytes(buf, pos, Width(layout[i])) IN
         IF ~r.ok THEN [ok |-> FALSE, rec |-> <<>>, pos |-> r.pos]
         ELSE LET f == DecodeField(layout[i], r.bytes) IN
              IF ~f.ok THEN [ok |-> FALSE, rec |-> <<>>, pos |-> r.pos]
              ELSE DeserializeFields(layout, buf, i + 1, r.pos,
                                     Append(acc, f.val))

\* Options::deserialize: the record's fields, then the trailing-bytes policy:
\* bytes left after the last field are an error only when the coder rejects
\* them.
Deserialize(ty, buf) ==
    LET r == DeserializeFields(Layout(ty), buf, 1, 0, <<>>) IN
    IF r.ok /\ coder.trailing = "reject" /\ r.pos < Len(buf)
    THEN [ok |-> FALSE, rec |-> <<>>, pos |-> r.pos]
    ELSE r

\* --------------------------------------------------------- the trait methods

\* What a call returns: kind is "Ok", "SerializeError" or "DeserializeError"
\* ("none" before the site's first call); rec is the record bdes returns,
\* read the number of bytes bdes read from its buffer.
Result(kind, rec, read) == [kind |-> kind, rec |-> rec, read |-> read]

\* bser_into on a `&mut [u8]`: what it returns and the region as it leaves it.
\* Every error of the coder is SerializeError.
bser_into(ty, rec, region) ==
    LET r == SerializeFields(Layout(ty), rec, 1, SliceWriter(region)) IN
    [res |-> Result(IF r.ok THEN "Ok" ELSE "SerializeError", <<>>, 0),
     buf |-> r.w.buf]

\* Mutant of bser: the Vec made with its length, not its capacity, set to the
\* record's size (vec![0; size]), so the record follows size zero bytes.
bserZeroed(ty, rec) ==
    LET r == SerializeFields(Layout(ty), rec, 1,
                 [growable |-> TRUE, buf |-> Fill(EncodedLen(ty), 0),
                  pos |-> EncodedLen(ty)])
    IN IF r.ok THEN [res |-> Result("Ok", <<>>, 0), buf |-> r.w.buf]
       ELSE [res |-> Result("SerializeError", <<>>, 0), buf |-> <<>>]

\* bser: the same into a new Vec, which it returns.
bser(ty, rec) ==
    LET r == SerializeFields(Layout(ty), rec, 1, VecWriter) IN
    IF r.ok THEN [res |-> Result("Ok", <<>>, 0), buf |-> r.w.buf]
    ELSE [res |-> Result("SerializeError", <<>>, 0), buf |-> <<>>]

\* Mutant of bdes: an error of the coder replaced by a default record
\* (unwrap_or_default) instead of DeserializeError.
bdesDefault(ty, source) ==
    LET r == Deserialize(ty, source) IN
    [res |-> IF r.ok THEN Result("Ok", r.rec, r.pos)
             ELSE Result("Ok", [i \in 1..Len(Layout(ty)) |-> 0], r.pos),
     buf |-> source]

\* bdes: what it returns and the source buffer, which it only reads. Every
\* error of the coder is DeserializeError.
bdes(ty, source) ==
    LET r == Deserialize(ty, source) IN
    [res |-> IF r.ok THEN Result("Ok", r.rec, r.pos)
             ELSE Result("DeserializeError", <<>>, r.pos),
     buf |-> source]

\* ------------------------------------------------------------------- inputs

\* The records the calls are made with. Field values stay below 2^31.
Records(ty) ==
    CASE ty = "ShortStruct" ->
            {<<a, b>> : a \in {7, 8, 255}, b \in {1, 65536, 117637120}}
      [] ty = "PgReplicationMsg" ->
            {FromKeepAliveReply(bp, ts) : bp \in {4660, 22136}, ts \in {4660, 22136}}
                \cup {<<114, 1, 513, 65536, 2147483647, 1>>}
      [] ty = "Constrained" ->
            {<<b, e>> : b \in {0, 1}, e \in 0..(NumVariants - 1)}

\* Raw records as a peer may send them: the tests' byte arrays, and for
\* Constrained also bytes that are no value of the field's type.
Wires(ty) ==
    CASE ty = "ShortStruct" ->
            {<<8, 7, 3, 0, 0>>, <<7, 0, 1, 0, 0>>, <<255, 127, 255, 255, 255>>}
      [] ty = "PgReplicationMsg" ->
            {<<114>> \o <<0, 0, 0, 0, 0, 0, 18, 52>> \o Fill(8, 0) \o Fill(8, 0)
                 \o <<0, 0, 0, 0, 0, 0, 86, 120>> \o <<0>>,
             <<114>> \o <<0, 0, 0, 0, 1, 2, 3, 4>> \o <<0, 0, 0, 0, 0, 0, 0, 9>>
                 \o <<0, 0, 0, 0, 127, 0, 0, 0>> \o <<0, 0, 0, 0, 0, 0, 1, 0>>
                 \o <<1>>}
      [] ty = "Constrained" ->
            {<<1, 0, 0, 0, 2>>, <<0, 0, 0, 0, 0>>, <<2, 0, 0, 0, 1>>,
             <<1, 0, 0, 0, NumVariants>>, <<0, 0, 0, 1, 0>>, <<255, 0, 0, 0, 0>>}

\* The source buffers bdes is called on: a raw record, cut short anywhere or
\* followed by up to MaxTrail more bytes.
SrcBuffers(ty) ==
    {Take(w \o Fill(MaxTrail, TrailByte), n) :
        w \in Wires(ty), n \in 0..(EncodedLen(ty) + MaxTrail)}

\* The destination regions bser_into is called on: every capacity from none
\* to MaxTrail bytes more than the record takes.
Dests(ty) == {Fill(c, TrailByte) : c \in 0..(EncodedLen(ty) + MaxTrail)}

\* The inputs of the test short, for the interleavings of several sites.
SiteRecords == {<<7, 65536>>, <<8, 117637120>>}

SiteBuffers ==
    {Take(w \o Fill(MaxTrail, TrailByte), n) :
        w \in {<<8, 7, 3, 0, 0>>, <<7, 0, 1, 0, 0>>},
        n \in 0..(EncodedLen("ShortStruct") + MaxTrail)}

\* ------------------------------------------------------------ state machine

Call(op, ty, rec, buf) == [op |-> op, ty |-> ty, rec |-> rec, buf |-> buf]

Init ==
    /\ call = [s \in Sites |-> Call("none", "none", <<>>, <<>>)]
    /\ res  = [s \in Sites |-> Result("none", <<>>, 0)]
    /\ buffer = [s \in Sites |-> <<>>]

\* Site s serializes rec into a new buffer, which is the site's from then on.
Bser(s, ty, rec) ==
    LET r == bser(ty, rec) IN
    /\ call' = [call EXCEPT ![s] = Call("bser", ty, rec, <<>>)]
    /\ res'  = [res EXCEPT ![s] = r.res]
    /\ buffer' = [buffer EXCEPT ![s] = r.buf]

\* Mutant of BserInto: the bytes written to one region shared by all sites.
BserIntoShared(s, ty, rec, region) ==
    LET r == bser_into(ty, rec, region) IN
    /\ call' = [call EXCEPT ![s] = Call("bser_into", ty, rec, region)]
    /\ res'  = [res EXCEPT ![s] = r.res]
    /\ buffer' = [t \in Sites |-> r.buf]

\* Site s serializes rec into its own region.
BserInto(s, ty, rec, region) ==
    LET r == bser_into(ty, rec, region) IN
    /\ call' = [call EXCEPT ![s] = Call("bser_into", ty, rec, region)]
    /\ res'  = [res EXCEPT ![s] = r.res]
    /\ buffer' = [buffer EXCEPT ![s] = r.buf]

\* Site s deserializes a record of type ty from its own buffer, which it
\* lends to the call (`&'de [u8]`).
Bdes(s, ty, source) ==
    LET r == bdes(ty, source) IN
    /\ call' = [call EXCEPT ![s] = Call("bdes", ty, <<>>, source)]
    /\ res'  = [res EXCEPT ![s] = r.res]
    /\ buffer' = [buffer EXCEPT ![s] = r.buf]

\* The calls of one call site, over every record type and input.
Next ==
    \E ty \in Types :
        \/ \E rec \in Records(ty) : Bser("a", ty, rec)
        \/ \E rec \in Records(ty), region \in Dests(ty) :
                BserInto("a", ty, rec, region)
        \/ \E source \in SrcBuffers(ty) : Bdes("a", ty, source)

Spec == Init /\ [][Next]_vars

\* The calls of all call sites, interleaved in any order, over the inputs of
\* the test short.
NextSites ==
    \E s \in Sites :
        \/ \E rec \in SiteRecords : Bser(s, "ShortStruct", rec)
        \/ \E rec \in SiteRecords, region \in Dests("ShortStruct") :
                BserInto(s, "ShortStruct", rec, region)
        \/ \E source \in SiteBuffers : Bdes(s, "ShortStruct", source)

SpecSites == Init /\ [][NextSites]_vars

\* ------------------------------------------------------------------ claims

\* Byte j (1 is the first on the wire) of the w-byte big-endian form of v,
\* by its place value: 256^(w-j). Values are below 2^31, so the bytes of
\* place 256^4 and up are 0.
PlaceByte(v, w, j) == IF w - j >= 4 THEN 0 ELSE (v \div (256 ^ (w - j))) % 256

\* Where field i of a layout starts on the wire.
Offset(layout, i) == SumWidths(SubSeq(layout, 1, i - 1))

\* Bytes that may follow a record in a buffer.
Trailers == {Fill(k, b) : k \in 0..MaxTrail, b \in {0, TrailByte}}

\* C1. Round trip: bser of a record succeeds, and bdes of the bytes it
\* returns succeeds and returns the record, field by field.
C1_RoundTrip ==
    \A s \in Sites :
        call[s].op = "bser" =>
            /\ res[s].kind = "Ok"
            /\ LET d == bdes(call[s].ty, buffer[s]).res IN
               /\ d.kind = "Ok"
               /\ Len(d.rec) = Len(call[s].rec)
               /\ \A i \in 1..Len(d.rec) : d.rec[i] = call[s].rec[i]

C1_Witness ==
    \E s \in Sites :
        /\ call[s].op = "bser"
        /\ call[s].ty = "PgReplicationMsg"
        /\ call[s].rec = <<114, 1, 513, 65536, 2147483647, 1>>
        /\ res[s].kind = "Ok"
        /\ bdes(call[s].ty, buffer[s]).res.rec = call[s].rec

\* C2. Trailing tolerance: when bdes succeeds on a buffer, it succeeds on
\* the buffer followed by any bytes, with the same record; the test's
\* buffer with three 0xFF after the record decodes as the one without.
C2_TrailingTolerance ==
    \A s \in Sites :
        (call[s].op = "bdes" /\ res[s].kind = "Ok") =>
            /\ \A x \in Trailers :
                  LET d == bdes(call[s].ty, buffer[s] \o x).res IN
                  d.kind = "Ok" /\ d.rec = res[s].rec
            /\ buffer[s] = <<8, 7, 3, 0, 0, 255, 255, 255>> =>
                  res[s].rec = bdes(call[s].ty, <<8, 7, 3, 0, 0>>).res.rec

C2_Witness ==
    \E s \in Sites :
        /\ call[s].op = "bdes"
        /\ call[s].ty = "ShortStruct"
        /\ buffer[s] = <<8, 7, 3, 0, 0, 255, 255, 255>>
        /\ res[s].kind = "Ok"
        /\ res[s].rec = <<8, 117637120>>

\* C3. Short buffer: bdes on a buffer shorter than the record's layout
\* returns DeserializeError and no record, and reads no byte past the end
\* of the buffer.
C3_ShortBuffer ==
    \A s \in Sites :
        (call[s].op = "bdes" /\ Len(call[s].buf) < EncodedLen(call[s].ty)) =>
            /\ res[s].kind = "DeserializeError"
            /\ res[s].rec = <<>>
            /\ res[s].read <= Len(call[s].buf)

\* A buffer that ends in the middle of the u32 of a ShortStruct.
C3_Witness ==
    \E s \in Sites :
        /\ call[s].op = "bdes"
        /\ call[s].ty = "ShortStruct"
        /\ call[s].buf = <<8, 7, 3>>
        /\ res[s].kind = "DeserializeError"
        /\ res[s].read = 1

\* C4. Wire layout: the bytes bser returns are the fields in declared
\* order, each its big-endian bytes (most significant first), with nothing
\* before, between or after them; {a: 7, b: 65536} is [7, 0, 1, 0, 0], and
\* [8, 7, 3, 0, 0] decodes to {a: 8, b: 0x07030000}.
C4_WireLayout ==
    \A s \in Sites :
        /\ call[s].op = "bser" =>
              LET layout == Layout(call[s].ty) IN
              /\ Len(buffer[s]) = Offset(layout, Len(layout) + 1)
              /\ \A i \in 1..Len(layout) :
                    \A j \in 1..Width(layout[i]) :
                        buffer[s][Offset(layout, i) + j] =
                            PlaceByte(call[s].rec[i], Width(layout[i]), j)
              /\ (call[s].ty = "ShortStruct" /\ call[s].rec = <<7, 65536>>) =>
                    buffer[s] = <<7, 0, 1, 0, 0>>
        /\ (call[s].op = "bdes" /\ call[s].ty = "ShortStruct"
                /\ call[s].buf = <<8, 7, 3, 0, 0>>) =>
              (res[s].kind = "Ok" /\ res[s].rec = <<8, 117637120>>)

C4_Witness ==
    \E s \in Sites :
        /\ call[s].op = "bser"
        /\ call[s].ty = "ShortStruct"
        /\ call[s].rec = <<7, 65536>>
        /\ buffer[s] = <<7, 0, 1, 0, 0>>

\* C5. Fixed width: the bytes bser returns are as many as the fields'
\* declared widths add up to, whatever the values: 5 for a ShortStruct,
\* whose u32 1 is 00 00 00 01, and 34 for a PgReplicationMsg.
C5_FixedWidth ==
    \A s \in Sites :
        call[s].op = "bser" =>
            /\ Len(buffer[s]) = EncodedLen(call[s].ty)
            /\ call[s].ty = "ShortStruct" =>
                  /\ Len(buffer[s]) = 5
                  /\ call[s].rec[2] = 1 => SubSeq(buffer[s], 2, 5) = <<0, 0, 0, 1>>
            /\ call[s].ty = "PgReplicationMsg" => Len(buffer[s]) = 34

C5_Witness ==
    \E s \in Sites :
        /\ call[s].op = "bser"
        /\ call[s].ty = "ShortStruct"
        /\ call[s].rec[2] = 1
        /\ SubSeq(buffer[s], 2, 5) = <<0, 0, 0, 1>>

\* C6. bser_into on a region smaller than the record's encoding returns
\* SerializeError; the region then holds the first bytes of the record's
\* full encoding, as many as it has room for, and nothing else is written.
C6_SerializeError ==
    \A s \in Sites :
        (call[s].op = "bser_into" /\ Len(call[s].buf) < EncodedLen(call[s].ty)) =>
            /\ res[s].kind = "SerializeError"
            /\ Len(buffer[s]) = Len(call[s].buf)
            /\ buffer[s] = Take(bser(call[s].ty, call[s].rec).buf, Len(call[s].buf))

\* A region of 3 bytes: the u8 and half of the u32 are written.
C6_Witness ==
    \E s \in Sites :
        /\ call[s].op = "bser_into"
        /\ call[s].ty = "ShortStruct"
        /\ call[s].rec = <<7, 65536>>
        /\ call[s].buf = <<255, 255, 255>>
        /\ res[s].kind = "SerializeError"
        /\ buffer[s] = <<7, 0, 1>>

\* C7. bser and bser_into agree: bser succeeds and returns exactly the
\* record's encoded length of bytes, and bser_into on a region with at
\* least that capacity succeeds and writes the same bytes to its front.
C7_BserAgree ==
    \A s \in Sites :
        LET n == EncodedLen(call[s].ty) IN
        /\ call[s].op = "bser" =>
              /\ res[s].kind = "Ok"
              /\ Len(buffer[s]) = n
              /\ \A region \in Dests(call[s].ty) :
                    Len(region) >= n =>
                        LET r == bser_into(call[s].ty, call[s].rec, region) IN
                        r.res.kind = "Ok" /\ Take(r.buf, n) = buffer[s]
        /\ (call[s].op = "bser_into" /\ Len(call[s].buf) >= n) =>
              /\ res[s].kind = "Ok"
              /\ Take(buffer[s], n) = bser(call[s].ty, call[s].rec).buf

C7_Witness ==
    \E s \in Sites :
        /\ call[s].op = "bser_into"
        /\ call[s].ty = "ShortStruct"
        /\ call[s].rec = <<7, 65536>>
        /\ Len(call[s].buf) = 6
        /\ res[s].kind = "Ok"
        /\ buffer[s] = <<7, 0, 1, 0, 0, 255>>

\* C8. Reverse round trip: when bdes succeeds on a buffer, it has read
\* exactly the layout's bytes, and bser of the record it returns gives
\* those bytes back, without the bytes that follow them.
C8_ReverseRoundTrip ==
    \A s \in Sites :
        (call[s].op = "bdes" /\ res[s].kind = "Ok") =>
            LET n == EncodedLen(call[s].ty)
                e == bser(call[s].ty, res[s].rec) IN
            /\ res[s].read = n
            /\ e.res.kind = "Ok"
            /\ e.buf = Take(call[s].buf, n)

C8_Witness ==
    \E s \in Sites :
        /\ call[s].op = "bdes"
        /\ call[s].ty = "PgReplicationMsg"
        /\ Len(call[s].buf) = 36
        /\ res[s].kind = "Ok"
        /\ Len(bser(call[s].ty, res[s].rec).buf) = 34
        /\ bser(call[s].ty, res[s].rec).buf = Take(call[s].buf, 34)

\* The bytes of a Constrained that are no value of its fields: a bool byte
\* other than 0 and 1, or a variant index that no variant has.
InvalidConstrained(b) ==
    \/ b[1] \notin {0, 1}
    \/ b[2] # 0 \/ b[3] # 0 \/ b[4] # 0 \/ b[5] >= NumVariants

\* C9. Invalid value: bdes on a buffer that is long enough but holds bytes
\* that are no value of a constrained field returns DeserializeError, as
\* for a short buffer, and no record.
C9_InvalidValue ==
    \A s \in Sites :
        (/\ call[s].op = "bdes"
         /\ call[s].ty = "Constrained"
         /\ Len(call[s].buf) >= EncodedLen("Constrained")
         /\ InvalidConstrained(call[s].buf)) =>
            /\ res[s].kind = "DeserializeError"
            /\ res[s].rec = <<>>

C9_Witness ==
    \E s \in Sites :
        /\ call[s].op = "bdes"
        /\ call[s].ty = "Constrained"
        /\ call[s].buf = <<1, 0, 0, 0, NumVariants>>
        /\ res[s].kind = "DeserializeError"

\* What a call returns and leaves in its buffer when it runs alone.
Alone(c) ==
    CASE c.op = "bser"      -> bser(c.ty, c.rec)
      [] c.op = "bser_into" -> bser_into(c.ty, c.rec, c.buf)
      [] c.op = "bdes"      -> bdes(c.ty, c.buf)
      [] OTHER              -> [res |-> Result("none", <<>>, 0), buf |-> <<>>]

====
